---- MODULE Spec2Model ----
(***************************************************************************)
(* py-entropy: DecayString (entropy/__init__.py), a string that decays     *)
(* over time, backed by a kernel device (True Mode) or by SimulatedDecay   *)
(* (entropy/simulation.py, Sim Mode).                                      *)
(*                                                                         *)
(* Strings are sequences of code points, byte strings are sequences of     *)
(* 0..255.  An Optional[...] attribute is the empty set (None) or a        *)
(* singleton.  Time is counted in ticks of 1/TicksPerSec second.           *)
(*                                                                         *)
(*   Spec        one DecayString: construction, value, close, __del__      *)
(*   SpecEngine  two SimulatedDecay instances built from the same content, *)
(*               the same start instant and the same salt                  *)
(***************************************************************************)
EXTENDS Integers, Sequences, FiniteSets

VARIABLES
    now,              \* time.monotonic(), in ticks
    content,          \* the content argument of the constructor
    force_simulation, \* DecayConfig.force_simulation
    device_exists,    \* os.path.exists(config.device_path)
    pc,               \* "new", "live", "failed" (__init__ raised), "discarded"
    facade,           \* the DecayString attributes _use_kernel, _fd, _sim
    os,               \* the operating system: open handles, device bytes, calls made
    ret,              \* outcome of the last DecayString operation (sec: the whole
                      \* seconds since construction at which Sim Mode served a value)
    nCloseCalls,      \* number of DecayString.close() calls made by the owner
    engs,             \* SpecEngine: the two SimulatedDecay instances
    closeCalled,      \* SpecEngine: the instances close() was called on
    hist              \* SpecEngine: per instance, the reads served so far

vars == <<now, content, force_simulation, device_exists, pc, facade, os, ret,
          nCloseCalls, engs, closeCalled, hist>>

facadeVars == <<force_simulation, device_exists, pc, facade, os, ret, nCloseCalls>>
engineVars == <<engs, closeCalled, hist>>

----------------------------------------------------------------------------
(* Bounds *)

MaxLen == 2
MaxSalt == 1
MaxSecs == 3
TicksPerSec == 2
MaxReads == 2
MaxCloses == 3

MaxTime == MaxSecs * TicksPerSec

\* 'a', 'i' (a character random.Random(1) draws first), e-acute (two bytes in
\* UTF-8), a lone surrogate (no UTF-8 encoding)
Alphabet == {97, 105, 233, 55296}
\* the engine never looks at the characters it is given
EngineAlphabet == {97}

RECURSIVE SeqsUpTo(_, _)
SeqsUpTo(S, n) ==
    IF n = 0 THEN {<<>>}
    ELSE LET shorter == SeqsUpTo(S, n - 1)
         IN shorter \cup {Append(s, c) : s \in {t \in shorter : Len(t) = n - 1}, c \in S}

Contents == SeqsUpTo(Alphabet, MaxLen)
EngineContents == SeqsUpTo(EngineAlphabet, MaxLen)
Salts == 0..MaxSalt
Engines == {1, 2}

----------------------------------------------------------------------------
(* Optional[...] *)

None == {}
Some(x) == {x}
Get(o) == CHOOSE x \in o : TRUE

\* (variant: the first argument, unclamped)
MinFirst(a, b) == a
Min(a, b) == IF a < b THEN a ELSE b

----------------------------------------------------------------------------
(* random.Random *)

RECURSIVE BitXor(_, _)
BitXor(a, b) ==
    IF a = 0 THEN b
    ELSE IF b = 0 THEN a
    ELSE (((a % 2) + (b % 2)) % 2) + (2 * BitXor(a \div 2, b \div 2))

\* MtTable[seed + 1][length][k]: the k-th pair
\*   <<rng.randrange(0, length), rng.randint(33, 126)>>
\* drawn from rng = random.Random(seed) (CPython's Mersenne Twister), for the
\* seeds 0..3 and the lengths 1..3 that the bounds reach.
MtTable ==
  <<
     << << <<0, 86>>, <<0, 66>>, <<0, 84>> >>,
        << <<1, 86>>, <<0, 66>>, <<1, 84>> >>,
        << <<1, 86>>, <<0, 66>>, <<2, 95>> >> >>,
     << << <<0, 105>>, <<0, 65>>, <<0, 96>> >>,
        << <<0, 105>>, <<0, 65>>, <<0, 96>> >>,
        << <<0, 105>>, <<0, 65>>, <<0, 96>> >> >>,
     << << <<0, 44>>, <<0, 79>>, <<0, 118>> >>,
        << <<0, 44>>, <<0, 79>>, <<0, 118>> >>,
        << <<0, 44>>, <<0, 79>>, <<0, 118>> >> >>,
     << << <<0, 108>>, <<0, 80>>, <<0, 113>> >>,
        << <<0, 108>>, <<0, 80>>, <<1, 113>> >>,
        << <<0, 108>>, <<2, 49>>, <<1, 110>> >> >>
  >>

\* the k-th corruption event of random.Random(seed) on a string of that length
RandomEvent(seed, length, k) == MtTable[seed + 1][length][k]

----------------------------------------------------------------------------
(* SimulatedDecay *)

\* self._state[idx] = _printable_ascii(rng)
\* (variant: the new character is appended instead of stored at idx)
ApplyEventGrow(st, ev) == Append(st, ev[2])
ApplyEvent(st, ev) == [st EXCEPT ![ev[1] + 1] = ev[2]]

\* for _ in range(delta): idx = rng.randrange(0, length); self._state[idx] = ...
RECURSIVE Corrupt(_, _, _, _, _)
Corrupt(st, seed, length, delta, k) ==
    IF k > delta THEN st
    ELSE Corrupt(ApplyEvent(st, RandomEvent(seed, length, k)), seed, length, delta, k + 1)

\* self._last_applied = target
\* (variant: _last_applied is not updated)
AdvanceStale(last_applied, target) == last_applied
Advance(last_applied, target) == target

\* elapsed_sec = int(time.monotonic() - self._start)
\* (variant: round() instead of int())
ElapsedRounded(t, start) == (t - start + (TicksPerSec \div 2)) \div TicksPerSec
ElapsedSec(t, start) == (t - start) \div TicksPerSec

\* the whole seconds in t ticks
WholeSeconds(t) == t \div TicksPerSec

SimulatedDecayInit(c, start, salt) ==
    [original |-> c, start |-> start, salt |-> salt,
     closed |-> FALSE, last_applied |-> 0, state |-> Some(c)]

\* read(): the instance afterwards, the string returned, the number of
\* corruption events applied and whether a random.Random was seeded
\* (variant: no early return for empty content, and the generator is seeded
\* before delta is looked at)
SimReadSeedAlways(e, t) ==
    IF e.closed THEN [eng |-> e, out |-> <<>>, events |-> 0, seeded |-> FALSE]
    ELSE
      LET elapsed_sec == ElapsedSec(t, e.start)
          length == Len(e.original)
          target == Min(elapsed_sec, length)
          st0 == IF e.state = None THEN e.original ELSE Get(e.state)
          delta == target - e.last_applied
      IN  IF delta > 0
          THEN LET st1 == Corrupt(st0, BitXor(e.salt, target), length, delta, 1)
               IN  [eng |-> [e EXCEPT !.state = Some(st1),
                                      !.last_applied = Advance(e.last_applied, target)],
                    out |-> st1, events |-> delta, seeded |-> TRUE]
          ELSE [eng |-> [e EXCEPT !.state = Some(st0)], out |-> st0, events |-> 0,
                seeded |-> TRUE]
SimRead(e, t) ==
    IF e.closed THEN [eng |-> e, out |-> <<>>, events |-> 0, seeded |-> FALSE]
    ELSE
      LET elapsed_sec == ElapsedSec(t, e.start)
          length == Len(e.original)
      IN  IF length = 0 THEN [eng |-> e, out |-> <<>>, events |-> 0, seeded |-> FALSE]
          ELSE
            LET target == Min(elapsed_sec, length)
                st0 == IF e.state = None THEN e.original ELSE Get(e.state)
                delta == target - e.last_applied
            IN  IF delta > 0
                THEN LET st1 == Corrupt(st0, BitXor(e.salt, target), length, delta, 1)
                     IN  [eng |-> [e EXCEPT !.state = Some(st1),
                                            !.last_applied = Advance(e.last_applied, target)],
                          out |-> st1, events |-> delta, seeded |-> TRUE]
                ELSE [eng |-> [e EXCEPT !.state = Some(st0)], out |-> st0, events |-> 0,
                      seeded |-> FALSE]

\* close()
\* (variant: only _state is dropped)
SimCloseKeep(e) == [e EXCEPT !.state = None]
SimClose(e) == [e EXCEPT !.closed = TRUE, !.state = None, !.original = <<>>]

----------------------------------------------------------------------------
(* Text: str.encode("utf-8", errors="strict"), bytes.decode("utf-8", errors="replace") *)

\* code points U+D800..U+DFFF have no UTF-8 encoding under errors="strict"
Encodable(c) == ~(55296 <= c /\ c <= 57343)

EncodeChar(c) ==
    IF c < 128 THEN <<c>>
    ELSE IF c < 2048 THEN <<192 + (c \div 64), 128 + (c % 64)>>
    ELSE <<224 + (c \div 4096), 128 + ((c \div 64) % 64), 128 + (c % 64)>>

RECURSIVE Encode(_)
Encode(s) == IF s = <<>> THEN <<>> ELSE EncodeChar(Head(s)) \o Encode(Tail(s))

\* U+FFFD, what errors="replace" puts for bytes that are not valid UTF-8
Replacement == 65533

\* One- and two-byte sequences decode; any other byte is replaced by U+FFFD.
\* (Lead bytes of longer sequences do not occur in the byte strings below.)
RECURSIVE Decode(_)
Decode(b) ==
    IF b = <<>> THEN <<>>
    ELSE IF b[1] < 128 THEN <<b[1]>> \o Decode(Tail(b))
    ELSE IF /\ 194 <= b[1] /\ b[1] <= 223
            /\ Len(b) >= 2 /\ 128 <= b[2] /\ b[2] <= 191
         THEN <<(b[1] - 192) * 64 + (b[2] - 128)>> \o Decode(SubSeq(b, 3, Len(b)))
    ELSE <<Replacement>> \o Decode(Tail(b))

----------------------------------------------------------------------------
(* The kernel device and the operating system *)

\* the descriptor os.open returns
Handle == 3
\* os.read(self._fd, 4096)
ReadChunk == 4096

\* "<Kernel Error: ...>"
KernelErrorMarker == <<60, 75, 101, 114, 110, 101, 108, 32, 69, 114, 114, 111, 114, 58, 62>>

\* What a read of the device may return: the device decays the bytes it was
\* given in a way this program does not know; a decayed byte may be one that
\* is not valid UTF-8.
DeviceReads(dev) ==
    LET stored == {dev} \cup {[dev EXCEPT ![i] = 255] : i \in DOMAIN dev}
    IN  {SubSeq(d, 1, Min(Len(d), ReadChunk)) : d \in stored}

OpenResults == {"ok", "PermissionError", "OSError"}
\* outcome of os.lseek + os.write: both succeed, lseek raises, write raises
WriteResults == {"ok", "lseek", "write"}
\* outcome of os.lseek + os.read
ReadResults == {"ok", "OSError"}

\* except PermissionError / except OSError: EntropyDeviceError is a
\* RuntimeError and UnicodeEncodeError a ValueError, neither is an OSError
\* (variant: except Exception)
IsOSErrorAny(exc) == exc # "none"
IsOSError(exc) == exc \in {"PermissionError", "OSError"}

OsInit == [handles |-> {}, dev |-> <<>>, probes |-> 0, opens |-> 0, writes |-> 0,
           closes |-> 0, simcloses |-> 0]

----------------------------------------------------------------------------
(* DecayString *)

Unconstructed == [use_kernel |-> FALSE, fd |-> None, sim |-> None]

\* _close_fd
CloseFd(f, o) ==
    IF f.fd # None
    THEN [f |-> [f EXCEPT !.fd = None],
          os |-> [o EXCEPT !.handles = @ \ f.fd, !.closes = @ + 1]]
    ELSE [f |-> f, os |-> o]

\* _write_kernel: the operating system afterwards, the exception raised and
\* what it was raised from
WriteKernel(f, o, c, wres) ==
    IF f.fd = None THEN [os |-> o, exc |-> "EntropyDeviceError", cause |-> "closed"]
    ELSE IF \E k \in DOMAIN c : ~Encodable(c[k])
    THEN [os |-> o, exc |-> "UnicodeEncodeError", cause |-> "encode"]
    ELSE IF wres = "lseek"
    THEN [os |-> o, exc |-> "EntropyDeviceError", cause |-> "OSError"]
    ELSE IF wres = "write"
    THEN [os |-> [o EXCEPT !.writes = @ + 1],
          exc |-> "EntropyDeviceError", cause |-> "OSError"]
    ELSE [os |-> [o EXCEPT !.writes = @ + 1, !.dev = Encode(c)],
          exc |-> "none", cause |-> "none"]

\* _read_kernel
\* (variant: a failed read raises, as a failed write does)
ReadKernelRaise(f, rres, raw) ==
    IF f.fd = None \/ rres # "ok" THEN [exc |-> "EntropyDeviceError", val |-> <<>>]
    ELSE [exc |-> "none", val |-> Decode(raw)]
ReadKernel(f, rres, raw) ==
    IF f.fd = None THEN [exc |-> "EntropyDeviceError", val |-> <<>>]
    ELSE IF rres # "ok" THEN [exc |-> "none", val |-> KernelErrorMarker]
    ELSE [exc |-> "none", val |-> Decode(raw)]

\* if not self._config.force_simulation and os.path.exists(...): whether the
\* device is tried, and whether os.path.exists is called at all
\* (variant: force_simulation is not looked at)
TriesDeviceIgnoreForce(force, exists) == exists
TriesDevice(force, exists) == ~force /\ exists
ProbesDevice(force) == ~force

\* __init__
DecayStringInit(c, force, exists, o, openRes, wres, salt, t) ==
    LET f0 == Unconstructed
        f1 == [f0 EXCEPT !.fd = Some(Handle)]
        op == IF ProbesDevice(force) THEN [o EXCEPT !.probes = @ + 1] ELSE o
        o1 == [op EXCEPT !.handles = @ \cup {Handle}, !.opens = @ + 1]
        w  == WriteKernel(f1, o1, c, wres)
        \* the try block: what it leaves and what it raises
        body == IF openRes # "ok"
                THEN [f |-> f0, os |-> op, exc |-> openRes, fault |-> "open"]
                ELSE [f |-> f1, os |-> w.os, exc |-> w.exc,
                      fault |-> IF w.cause = "OSError" THEN "write" ELSE w.cause]
        cl == CloseFd(body.f, body.os)
        Simulated(f, oo, fault) ==
            [f |-> [f EXCEPT !.sim = Some(SimulatedDecayInit(c, t, salt))],
             os |-> oo, exc |-> "none", fault |-> fault]
    IN  IF TriesDevice(force, exists)
        THEN IF body.exc = "none"
             THEN [f |-> [body.f EXCEPT !.use_kernel = TRUE], os |-> body.os,
                   exc |-> "none", fault |-> "none"]
             ELSE IF IsOSError(body.exc)
             THEN Simulated(cl.f, cl.os, body.fault)
             ELSE body
        ELSE Simulated(f0, op, "none")

\* value
DecayStringValue(f, t, rres, raw) ==
    IF f.use_kernel
    THEN LET r == ReadKernel(f, rres, raw)
         IN  [f |-> f, exc |-> r.exc, val |-> r.val,
              fault |-> IF f.fd # None /\ rres # "ok" THEN "read" ELSE "none"]
    ELSE IF f.sim = None
    THEN [f |-> f, exc |-> "AssertionError", val |-> <<>>, fault |-> "none"]
    ELSE LET r == SimRead(Get(f.sim), t)
         IN  [f |-> [f EXCEPT !.sim = Some(r.eng)], exc |-> "none", val |-> r.out,
              fault |-> "none"]

\* close
\* (variant: the closed engine is kept in _sim)
DecayStringCloseKeepSim(f, o, wres) ==
    IF f.use_kernel /\ f.fd # None
    THEN LET w  == WriteKernel(f, o, <<>>, wres)
             cl == CloseFd(f, w.os)
         IN  IF w.exc = "none"
             THEN [f |-> [cl.f EXCEPT !.use_kernel = FALSE], os |-> cl.os,
                   exc |-> "none", fault |-> "none"]
             ELSE [f |-> cl.f, os |-> cl.os, exc |-> w.exc, fault |-> "write"]
    ELSE IF f.sim # None
    THEN [f |-> [f EXCEPT !.sim = Some(SimClose(Get(f.sim)))],
          os |-> [o EXCEPT !.simcloses = @ + 1], exc |-> "none", fault |-> "none"]
    ELSE [f |-> f, os |-> o, exc |-> "none", fault |-> "none"]
DecayStringClose(f, o, wres) ==
    IF f.use_kernel /\ f.fd # None
    THEN LET w  == WriteKernel(f, o, <<>>, wres)
             cl == CloseFd(f, w.os)   \* finally
         IN  IF w.exc = "none"
             THEN [f |-> [cl.f EXCEPT !.use_kernel = FALSE], os |-> cl.os,
                   exc |-> "none", fault |-> "none"]
             ELSE [f |-> cl.f, os |-> cl.os, exc |-> w.exc, fault |-> "write"]
    ELSE IF f.sim # None
    THEN [f |-> [f EXCEPT !.sim = None],
          os |-> [o EXCEPT !.simcloses = @ + 1], exc |-> "none", fault |-> "none"]
    ELSE [f |-> f, os |-> o, exc |-> "none", fault |-> "none"]

\* __del__: close(), with any Exception swallowed
\* (variant: no try/except around close())
DecayStringDelRaise(f, o, wres) == DecayStringClose(f, o, wres)
DecayStringDel(f, o, wres) == [DecayStringClose(f, o, wres) EXCEPT !.exc = "none"]

----------------------------------------------------------------------------
(* Spec: one DecayString and its owner *)

Init ==
    /\ now = 0
    /\ content \in Contents
    /\ force_simulation \in BOOLEAN
    /\ device_exists \in BOOLEAN
    /\ pc = "new"
    /\ facade = Unconstructed
    /\ os = OsInit
    /\ ret = [op |-> "none", exc |-> "none", val |-> <<>>, fault |-> "none", sec |-> 0]
    /\ nCloseCalls = 0
    /\ engs = [i \in Engines |-> SimulatedDecayInit(<<>>, 0, 0)]
    /\ closeCalled = {}
    /\ hist = [i \in Engines |-> <<>>]

Tick ==
    /\ now < MaxTime
    /\ now' = now + 1
    /\ UNCHANGED <<content, facadeVars, engineVars>>

\* DecayString(content, config=DecayConfig(device_path, force_simulation))
Construct ==
    /\ pc = "new"
    /\ \E openRes \in OpenResults, wres \in WriteResults, salt \in Salts :
         LET r == DecayStringInit(content, force_simulation, device_exists, os,
                                  openRes, wres, salt, now)
         IN  /\ facade' = r.f
             /\ os' = r.os
             /\ ret' = [op |-> "init", exc |-> r.exc, val |-> <<>>, fault |-> r.fault,
                     sec |-> 0]
             /\ pc' = IF r.exc = "none" THEN "live" ELSE "failed"
    /\ UNCHANGED <<now, content, force_simulation, device_exists, nCloseCalls, engineVars>>

\* s.value
Value ==
    /\ pc = "live"
    /\ \E rres \in ReadResults, raw \in DeviceReads(os.dev) :
         LET r == DecayStringValue(facade, now, rres, raw)
         IN  /\ facade' = r.f
             /\ ret' = [op |-> "value", exc |-> r.exc, val |-> r.val, fault |-> r.fault,
                     sec |-> IF ~facade.use_kernel /\ facade.sim # None
                             THEN WholeSeconds(now - Get(facade.sim).start)
                             ELSE 0]
    /\ UNCHANGED <<now, content, force_simulation, device_exists, pc, os, nCloseCalls,
                   engineVars>>

\* s.close()
Close ==
    /\ pc = "live"
    /\ nCloseCalls < MaxCloses
    /\ nCloseCalls' = nCloseCalls + 1
    /\ \E wres \in WriteResults :
         LET r == DecayStringClose(facade, os, wres)
         IN  /\ facade' = r.f
             /\ os' = r.os
             /\ ret' = [op |-> "close", exc |-> r.exc, val |-> <<>>, fault |-> r.fault,
                     sec |-> 0]
    /\ UNCHANGED <<now, content, force_simulation, device_exists, pc, engineVars>>

\* __del__, when the owner drops the object or __init__ raised
Finalize ==
    /\ pc \in {"live", "failed"}
    /\ pc' = "discarded"
    /\ \E wres \in WriteResults :
         LET r == DecayStringDel(facade, os, wres)
         IN  /\ facade' = r.f
             /\ os' = r.os
             /\ ret' = [op |-> "del", exc |-> r.exc, val |-> <<>>, fault |-> r.fault,
                     sec |-> 0]
    /\ UNCHANGED <<now, content, force_simulation, device_exists, nCloseCalls, engineVars>>

Next ==
    \/ Tick
    \/ Construct
    \/ Value
    \/ Close
    \/ Finalize

Spec == Init /\ [][Next]_vars

----------------------------------------------------------------------------
(* SpecEngine: two instances with the same content, start and salt *)

InitEngine ==
    /\ now = 0
    /\ content \in EngineContents
    /\ force_simulation = TRUE
    /\ device_exists = FALSE
    /\ pc = "new"
    /\ facade = Unconstructed
    /\ os = OsInit
    /\ ret = [op |-> "none", exc |-> "none", val |-> <<>>, fault |-> "none", sec |-> 0]
    /\ nCloseCalls = 0
    /\ \E salt \in Salts : engs = [i \in Engines |-> SimulatedDecayInit(content, 0, salt)]
    /\ closeCalled = {}
    /\ hist = [i \in Engines |-> <<>>]

EngRead(i) ==
    /\ Len(hist[i]) < MaxReads
    /\ LET r == SimRead(engs[i], now)
       IN  /\ engs' = [engs EXCEPT ![i] = r.eng]
           /\ hist' = [hist EXCEPT ![i] = Append(@,
                        [sec |-> WholeSeconds(now),
                         closed |-> i \in closeCalled,
                         out |-> r.out,
                         events |-> r.events,
                         seeded |-> r.seeded,
                         applied |-> r.eng.last_applied,
                         changed |-> r.eng # engs[i]])]
    /\ UNCHANGED <<now, content, facadeVars, closeCalled>>

EngClose(i) ==
    /\ i \notin closeCalled
    /\ engs' = [engs EXCEPT ![i] = SimClose(@)]
    /\ closeCalled' = closeCalled \cup {i}
    /\ UNCHANGED <<now, content, facadeVars, hist>>

NextEngine ==
    \/ Tick
    \/ \E i \in Engines : EngRead(i)
    \/ \E i \in Engines : EngClose(i)

SpecEngine == InitEngine /\ [][NextEngine]_vars

----------------------------------------------------------------------------
(* Properties of DecayString, checked under Spec *)

\* C1: when os.open or the initial write of the content fails with a
\* PermissionError or another OSError, the constructor returns normally, no
\* handle is left open and the object is in Sim Mode.
C1_BindFailureFallsBack ==
    (ret.op = "init" /\ ret.fault \in {"open", "write"})
        => /\ ret.exc = "none"
           /\ os.handles = {}
           /\ ~facade.use_kernel
           /\ facade.sim # None

\* C2: when the clearing write of close() fails in True Mode, close() raises
\* nothing, the handle is released and the object has left True Mode.
C2_CloseSwallowsClearFailure ==
    (ret.op = "close" /\ ret.fault = "write")
        => /\ ret.exc = "none"
           /\ os.handles = {}
           /\ facade.fd = None
           /\ ~facade.use_kernel

\* C3: in every state of a constructed object reached by value and close()
\* calls, value returns a string and raises nothing.
C3_ValueAlwaysReturnsString ==
    ret.op = "value" => ret.exc = "none"

\* C4: every handle the constructor opens is released exactly once: none is
\* closed twice, and none is still open once close() or __del__ has run.
C4_HandleReleasedExactlyOnce ==
    /\ os.closes <= os.opens
    /\ (pc = "discarded" \/ nCloseCalls > 0) => os.handles = {}

\* C8: close() is idempotent in both modes: a close() after an earlier close()
\* raises nothing, writes and closes nothing, and leaves the object unchanged.
C8_CloseIdempotent ==
    [][(nCloseCalls' = nCloseCalls + 1 /\ nCloseCalls >= 1)
          => (ret'.exc = "none" /\ facade' = facade /\ os' = os)]_vars

\* a second close() after a close() whose clearing write failed
C8_Witness ==
    /\ nCloseCalls >= 2
    /\ ret.op = "close"
    /\ facade.use_kernel
    /\ os.closes = 1

\* C11: with force_simulation the constructor never probes, opens or writes
\* the device and yields Sim Mode; with a device path that does not exist it
\* yields Sim Mode; is_real() is true right after construction only if
\* force_simulation was false, the device existed, and the open and the
\* initial write both succeeded.
C11_ModeSelection ==
    ret.op = "init" =>
        /\ force_simulation =>
              /\ os.probes = 0 /\ os.opens = 0 /\ os.writes = 0
              /\ ret.exc = "none" /\ ~facade.use_kernel /\ facade.sim # None
        /\ (~force_simulation /\ ~device_exists) =>
              /\ os.opens = 0 /\ os.writes = 0
              /\ ret.exc = "none" /\ ~facade.use_kernel /\ facade.sim # None
        /\ facade.use_kernel =>
              /\ ~force_simulation /\ device_exists
              /\ os.opens = 1 /\ os.handles = {Handle} /\ facade.fd = Some(Handle)
              /\ os.writes = 1 /\ os.dev = Encode(content)
              /\ ret.exc = "none" /\ ret.fault = "none"

\* constructed with force_simulation although the device exists
C11_Witness ==
    /\ ret.op = "init"
    /\ force_simulation /\ device_exists
    /\ pc = "live"
    /\ facade.sim # None

\* the last operation was a value served by the simulation
SimValue == ret.op = "value" /\ ~facade.use_kernel /\ facade.sim # None

\* C12: in Sim Mode every value read before one whole second has elapsed
\* since construction returns exactly the content.
C12_FreshValueIsContent ==
    (SimValue /\ ret.sec = 0) => (ret.exc = "none" /\ ret.val = content)

\* a value read later than the instant of construction, within the first
\* second, of content of the greatest length
C12_Witness ==
    /\ SimValue /\ ret.sec = 0
    /\ now > Get(facade.sim).start
    /\ Len(content) = MaxLen

\* C13: in Sim Mode with non-empty content, a value read after two or more
\* elapsed seconds differs from the content and has its length.
C13_DecayedValueDiffers ==
    (SimValue /\ content # <<>> /\ ret.sec >= 2)
        => (ret.val # content /\ Len(ret.val) = Len(content))

\* C14: in True Mode with the handle open, when os.lseek or os.read fails
\* with an OSError, value returns the diagnostic string, raises nothing and
\* leaves the object as it was, still in True Mode with its handle open.
C14_ReadFailureGivesMarker ==
    [][(ret'.op = "value" /\ ret'.fault = "read")
          => /\ ret'.exc = "none"
             /\ ret'.val = KernelErrorMarker
             /\ facade' = facade /\ os' = os
             /\ facade'.use_kernel /\ facade'.fd = Some(Handle)
             /\ os'.handles = {Handle}]_vars

\* a value whose read of the device failed
C14_Witness ==
    /\ ret.op = "value" /\ ret.fault = "read"
    /\ facade.use_kernel
    /\ os.dev # <<>>

\* C15: when the object is discarded, __del__ attempts the cleanup of close()
\* (clear and release the handle in True Mode, close the engine in Sim Mode)
\* and no error of that attempt escapes, also when the clearing write fails.
C15_FinalizeCleansUpSilently ==
    [][(pc # "discarded" /\ pc' = "discarded")
          => /\ ret'.exc = "none"
             /\ (facade.use_kernel /\ facade.fd # None)
                   => /\ os'.writes = os.writes + 1 \/ ret'.fault = "write"
                      /\ ret'.fault = "none" => os'.dev = <<>>
                      /\ os'.closes = os.closes + 1
                      /\ os'.handles = {}
                      /\ facade'.fd = None
             /\ (~facade.use_kernel /\ facade.sim # None)
                   => /\ os'.simcloses = os.simcloses + 1
                      /\ facade'.sim = None]_vars

\* discarded in True Mode, and the clearing write failed
C15_Witness ==
    /\ pc = "discarded"
    /\ ret.op = "del" /\ ret.fault = "write"
    /\ os.closes = 1

Surrogate(c) == 55296 <= c /\ c <= 57343

\* C16: when the device exists and opens and the content cannot be encoded,
\* the constructor raises and builds no simulation.
C16_UnencodableContentRaises ==
    (/\ ret.op = "init"
     /\ ~force_simulation /\ device_exists
     /\ os.opens = 1
     /\ \E k \in DOMAIN content : Surrogate(content[k]))
        => /\ ret.exc = "UnicodeEncodeError"
           /\ pc = "failed"
           /\ facade.sim = None
           /\ ~facade.use_kernel

\* the constructor raised on content holding a lone surrogate
C16_Witness ==
    /\ ret.op = "init" /\ ret.fault = "encode"
    /\ pc = "failed"
    /\ os.opens = 1

\* C18: between operations (after the constructor returned or raised, after
\* each value, after each close()), a handle is open if and only if the
\* object is in True Mode, i.e. is_real() is true.
C18_HandleIffTrueMode ==
    pc # "new" => ((os.handles # {}) <=> facade.use_kernel)

----------------------------------------------------------------------------
(* Properties of SimulatedDecay, checked under SpecEngine *)

Open(i, k) == ~hist[i][k].closed

\* C5: two instances with the same content, start and salt return the same
\* string from reads at the same elapsed second, whatever reads each served
\* before.
C5_SameElapsedSameString ==
    \A k1 \in DOMAIN hist[1], k2 \in DOMAIN hist[2] :
        (Open(1, k1) /\ Open(2, k2) /\ hist[1][k1].sec = hist[2][k2].sec)
            => hist[1][k1].out = hist[2][k2].out

\* the reads an instance has served: the elapsed second of each, and whether
\* close() had been called
Schedule(i, k) == [j \in 1..k |-> <<hist[i][j].sec, hist[i][j].closed>>]

\* C6: two instances with the same content and salt that are read on the same
\* schedule return the same sequence of strings.
C6_SameScheduleSameOutputs ==
    \A k \in DOMAIN hist[1] \cap DOMAIN hist[2] :
        Schedule(1, k) = Schedule(2, k) => hist[1][k].out = hist[2][k].out

\* both instances were read at two different seconds, decaying at the second
C6_Witness ==
    /\ Len(hist[1]) = 2 /\ Len(hist[2]) = 2
    /\ Schedule(1, 2) = Schedule(2, 2)
    /\ Open(1, 2)
    /\ hist[1][1].sec < hist[1][2].sec
    /\ hist[1][1].events > 0 /\ hist[1][2].events > 0

\* C7: two reads of an open instance within the same elapsed second return the
\* same string, and the later one applies no corruption event and leaves
\* _state and _last_applied as they were.
C7_SameSecondIdempotent ==
    \A i \in Engines : \A k, j \in DOMAIN hist[i] :
        (k < j /\ Open(i, j) /\ hist[i][k].sec = hist[i][j].sec)
            => /\ hist[i][j].out = hist[i][k].out
               /\ hist[i][j].events = 0
               /\ hist[i][j].applied = hist[i][k].applied
               /\ ~hist[i][j].changed

\* a second read in a second whose first read decayed the string
C7_Witness ==
    \E i \in Engines :
        /\ Len(hist[i]) = 2
        /\ Open(i, 2)
        /\ hist[i][1].sec = hist[i][2].sec
        /\ hist[i][1].events > 0

\* C9: after close(), every read returns the empty string at any elapsed
\* time, applies no corruption event and changes nothing.
C9_ReadAfterCloseEmpty ==
    \A i \in Engines : \A k \in DOMAIN hist[i] :
        hist[i][k].closed
            => /\ hist[i][k].out = <<>>
               /\ hist[i][k].events = 0
               /\ ~hist[i][k].changed

\* non-empty content, read after close() once a second or more has elapsed
C9_Witness ==
    \E i \in Engines : \E k \in DOMAIN hist[i] :
        /\ hist[i][k].closed
        /\ hist[i][k].sec >= 1
        /\ content # <<>>

\* C10: every read of an open instance returns a string as long as the
\* content it was built from.
C10_LengthPreserved ==
    \A i \in Engines : \A k \in DOMAIN hist[i] :
        Open(i, k) => Len(hist[i][k].out) = Len(content)

\* a read that decayed a string of the greatest length
C10_Witness ==
    \E i \in Engines : \E k \in DOMAIN hist[i] :
        /\ Open(i, k)
        /\ hist[i][k].events > 0
        /\ Len(content) = MaxLen

\* C17: an instance built from empty content returns the empty string from
\* every read, keeps _last_applied at 0 and never seeds or draws from a
\* random generator.
C17_EmptyContentInert ==
    content = <<>> =>
        \A i \in Engines : \A k \in DOMAIN hist[i] :
            /\ hist[i][k].out = <<>>
            /\ hist[i][k].events = 0
            /\ ~hist[i][k].seeded
            /\ hist[i][k].applied = 0
            /\ ~hist[i][k].changed

\* empty content, read while open after a second or more
C17_Witness ==
    /\ content = <<>>
    /\ \E i \in Engines : \E k \in DOMAIN hist[i] : Open(i, k) /\ hist[i][k].sec >= 1

\* the corruption events applied by the first k reads of instance i
RECURSIVE EventsApplied(_, _)
EventsApplied(i, k) == IF k = 0 THEN 0 ELSE hist[i][k].events + EventsApplied(i, k - 1)

\* C19: for an open instance of length L, _last_applied never decreases and
\* never exceeds L, equals min(E, L) right after a read at E elapsed seconds,
\* and equals the number of corruption events applied since construction.
C19_AppliedCount ==
    \A i \in Engines : \A k \in DOMAIN hist[i] :
        Open(i, k) =>
            /\ hist[i][k].applied <= Len(content)
            /\ hist[i][k].applied =
                  (IF hist[i][k].sec < Len(content) THEN hist[i][k].sec ELSE Len(content))
            /\ \A j \in 1..(k - 1) : hist[i][j].applied <= hist[i][k].applied
            /\ EventsApplied(i, k) = hist[i][k].applied

\* two decaying reads, the second later than L seconds after construction
C19_Witness ==
    \E i \in Engines :
        /\ Len(hist[i]) = 2 /\ Open(i, 2)
        /\ Len(content) = MaxLen
        /\ hist[i][1].events > 0 /\ hist[i][2].events > 0
        /\ hist[i][2].sec > Len(content)

\* C20: once an open instance has served a read at L or more elapsed seconds,
\* every later read applies no corruption event and returns that same string.
C20_Saturation ==
    \A i \in Engines : \A k, j \in DOMAIN hist[i] :
        (k < j /\ Open(i, j) /\ hist[i][k].sec >= Len(content))
            => /\ hist[i][j].events = 0
               /\ hist[i][j].out = hist[i][k].out

\* a read at L seconds that decayed the string, then a read in a later second
C20_Witness ==
    \E i \in Engines :
        /\ Len(hist[i]) = 2 /\ Open(i, 2)
        /\ Len(content) = MaxLen
        /\ hist[i][1].sec = Len(content) /\ hist[i][1].events > 0
        /\ hist[i][2].sec > hist[i][1].sec

====
